---- MODULE Spec2Model ----
(***************************************************************************)
(* UN_Comtrade.py: parameter normalisation (transform_reporter,            *)
(* transform_partner, transform_tradeflow), country-code resolution        *)
(* (find_country_code with its cache file and interactive prompt) and the   *)
(* download_trade_data pipeline built on them.                             *)
(*                                                                         *)
(* Python values are tagged records [t, v]; Python strings are sequences   *)
(* of one-character strings.  The program is single-threaded: the state is *)
(* the position of the one running call (op, pc, stage), its local         *)
(* variables, the cache files, the remote registry and history variables   *)
(* that record what the call has done so far.                              *)
(***************************************************************************)
EXTENDS Integers, Sequences, FiniteSets, TLC

\* ---------------------------------------------------------------- bounds
MaxLen == 2        \* longest reporter / partner list passed to transform_*
MaxCount == 2      \* fetch / write counters saturate here

\* ---------------------------------------------------------------- values
IntV(n) == [t |-> "int", v |-> n]
StrV(s) == [t |-> "str", v |-> s]
ListV(l) == [t |-> "list", v |-> l]
None == [t |-> "none", v |-> 0]

Roles == {"reporter", "partner"}

UpperCase == <<"A","B","C","D","E","F","G","H","I","J","K","L","M",
               "N","O","P","Q","R","S","T","U","V","W","X","Y","Z">>
LowerCase == <<"a","b","c","d","e","f","g","h","i","j","k","l","m",
               "n","o","p","q","r","s","t","u","v","w","x","y","z">>
Digits == <<"0","1","2","3","4","5","6","7","8","9">>

\* str.lower()
lower(s) ==
    [j \in 1..Len(s) |->
        IF \E u \in 1..26 : UpperCase[u] = s[j]
        THEN LowerCase[CHOOSE u \in 1..26 : UpperCase[u] = s[j]]
        ELSE s[j]]

\* str.isdigit(): non-empty and every character a digit
isdigit(s) == Len(s) > 0 /\ \A j \in 1..Len(s) : \E d \in 1..10 : Digits[d] = s[j]

\* Python's  sub in s  on strings
Contains(s, sub) ==
    \E start \in 0..(Len(s) - Len(sub)) :
        \A j \in 1..Len(sub) : s[start + j] = sub[j]

\* int(s) for a digit string, as pandas parses an index column
RECURSIVE ParseInt(_)
ParseInt(s) ==
    IF Len(s) = 0 THEN 0
    ELSE 10 * ParseInt(SubSeq(s, 1, Len(s) - 1))
         + ((CHOOSE d \in 1..10 : Digits[d] = s[Len(s)]) - 1)

\* ------------------------------------------------- regular expressions
\* pandas' Series.str.contains(pat) is re.search(pat, text) (regex=True is
\* the default).  The strings of this model use, of the regex
\* metacharacters, only "." (any character) and the parentheses (a group,
\* which matches what its content matches; unbalanced parentheses make
\* re.compile raise re.error).
RECURSIVE ParenDepthOk(_, _)
ParenDepthOk(p, depth) ==
    IF Len(p) = 0 THEN depth = 0
    ELSE IF Head(p) = "(" THEN ParenDepthOk(Tail(p), depth + 1)
    ELSE IF Head(p) = ")" THEN depth > 0 /\ ParenDepthOk(Tail(p), depth - 1)
    ELSE ParenDepthOk(Tail(p), depth)

RegexCompiles(p) == ParenDepthOk(p, 0)

RegexSearch(p, text) ==
    LET NotParen(c) == c \notin {"(", ")"}
        q == SelectSeq(p, NotParen)
    IN \E start \in 0..(Len(text) - Len(q)) :
          \A j \in 1..Len(q) : q[j] = "." \/ q[j] = text[start + j]

\* ------------------------------------------------------ string literals
s_all == <<"a","l","l">>
s_ALL == <<"A","L","L">>
s_All == <<"A","l","l">>
s_124 == <<"1","2","4">>
s_USA == <<"U","S","A">>
s_usa == <<"u","s","a">>
s_USAx == <<"U","S","A"," ","x">>
s_UdotA == <<"U",".","A">>
s_Kor == <<"K","o","r">>
s_NKor == <<"N"," ","K","o","r">>
s_SKor == <<"S"," ","K","o","r">>
s_BoP == <<"B","o"," ","(","P",")">>
s_BoOpen == <<"B","o"," ","(">>
s_World == <<"W","o","r","l","d">>
s_empty == <<>>
s_export == <<"e","x","p","o","r","t">>
s_import == <<"i","m","p","o","r","t">>
s_EXPORT == <<"E","X","P","O","R","T">>
s_Import == <<"I","m","p","o","r","t">>
s_s == <<"s">>
s_re == <<"r","e","-">>
s_imp == <<"i","m","p">>

\* ------------------------------------------------------------- registry
\* what https://comtrade.un.org/data/cache/{role}Areas.json returns:
\* json_dict['results'], records {id, text}, the first one the synthetic
\* "all" row
Row(id, text) == [id |-> id, text |-> text]

RegistryA ==
    [r \in Roles |->
        IF r = "reporter"
        THEN << Row(s_all, s_All), Row(<<"8","4","2">>, s_USA),
                Row(<<"4","0","8">>, s_NKor), Row(<<"4","1","0">>, s_SKor) >>
        ELSE << Row(s_all, s_All), Row(<<"0">>, s_World),
                Row(<<"8","4","2">>, s_USA) >>]

RegistryB ==
    [r \in Roles |->
        IF r = "reporter"
        THEN << Row(s_all, s_All), Row(<<"4","0","8">>, s_Kor),
                Row(<<"4","1","0">>, s_Kor), Row(<<"6","8">>, s_BoP) >>
        ELSE << Row(s_all, s_All), Row(<<"8","4","2">>, s_USA),
                Row(<<"8","4","9">>, s_USAx), Row(<<"7","8","4">>, s_UdotA) >>]

Registries == {RegistryA, RegistryB}

\* ---------------------------------------------------------------- inputs
Names == {s_USA, s_usa, s_Kor, s_SKor, s_UdotA, s_BoOpen, s_BoP, s_World,
          s_empty, s_124}

Elems == {IntV(124), StrV(s_124), StrV(s_ALL), StrV(s_USA), StrV(s_Kor),
          StrV(s_UdotA), StrV(s_BoOpen)}

RECURSIVE ListsUpTo(_)
ListsUpTo(n) ==
    IF n = 0 THEN {<<>>}
    ELSE ListsUpTo(n - 1)
         \cup {Append(l, e) : l \in {m \in ListsUpTo(n - 1) : Len(m) = n - 1},
                              e \in Elems}

CountryInputs == Elems \cup {ListV(l) : l \in ListsUpTo(MaxLen)}

TFPieces == {s_export, s_import, s_EXPORT, s_Import, s_s, s_re, s_imp}
TFInputs == {IntV(1), IntV(2)}
            \cup {StrV(a) : a \in TFPieces}
            \cup {StrV(a \o b) : a \in TFPieces, b \in TFPieces}

DLReporters == {StrV(s_USA), StrV(s_all), ListV(<<StrV(s_Kor), IntV(124)>>),
                ListV(<<StrV(s_UdotA)>>)}
DLPartners == {StrV(s_all), StrV(s_World),
               ListV(<<IntV(0), StrV(s_BoOpen)>>)}
DLTradeflows == {StrV(s_export \o s_s), StrV(s_Import \o s_s), IntV(1)}

Responses == {"y", "n", "Y"}

VARIABLES
    registry,       \* the remote registry's answer, per role
    file,           \* {role}Areas.csv: [exists, rows]
    fetches,        \* history: registry fetches made, per role
    writes,         \* history: cache-file writes made, per role
    op,             \* the public function the client called
    pc,             \* where that call is
    stage,          \* the statement of the called function being executed
    argReporter, argPartner, argTradeflow,  \* the call's arguments
    human_readable,
    reporter, partner, tradeflow,  \* the (rebound) local variables
    xs, i, out,     \* the list comprehension of transform_*
    country,        \* find_country_code's variable country
    fRole,          \* find_country_code's reporter_or_partner
    name0,          \* history: the name find_country_code was called with
    cands, k,       \* dict_matches and the position of the loop over it
    asked,          \* history: prompts answered in this find_country_code
    fOut,           \* history: outcome of the last find_country_code
    access,         \* history: cache / registry / prompt events of the call
    resolved,       \* history: resolver results used by transform_*
    done,           \* history: statements of the call that have completed
    parameters,     \* the trade-data request's parameters, None before it
    outWritten,     \* the output csv has been written by this call
    ret, err        \* the call's return value / the exception it raised

env == <<registry, file, fetches, writes>>
args == <<argReporter, argPartner, argTradeflow, human_readable>>
locals == <<reporter, partner, tradeflow>>
find == <<country, fRole, name0, cands, k, asked, fOut>>
request == <<parameters, outWritten>>
vars == <<registry, file, fetches, writes, op, pc, stage, argReporter,
          argPartner, argTradeflow, human_readable, reporter, partner,
          tradeflow, xs, i, out, country, fRole, name0, cands, k, asked,
          fOut, access, resolved, done, parameters, outWritten, ret, err>>

NoErr == [type |-> "none", arg |-> <<>>]
NoFind == [status |-> "none", code |-> None]
NoFile == [exists |-> FALSE, rows |-> <<>>]
Min(a, b) == IF a < b THEN a ELSE b

\* ------------------------------------------------------- pure functions
is_country_code_loose(inpt) == inpt.t \in {"str", "int"}
is_country_code_nodigit(inpt) ==
    IF inpt.t = "str" THEN lower(inpt.v) = s_all ELSE inpt.t = "int"
is_country_code(inpt) ==
    IF inpt.t = "str"
    THEN lower(inpt.v) = s_all \/ isdigit(inpt.v)
    ELSE inpt.t = "int"

transform_tradeflow_nolower(tf) ==
    IF tf.t = "str"
    THEN IF Contains(tf.v, s_export) THEN IntV(2)
         ELSE IF Contains(tf.v, s_import) THEN IntV(1)
         ELSE tf
    ELSE tf
transform_tradeflow(tf) ==
    IF tf.t = "str"
    THEN IF Contains(lower(tf.v), s_export) THEN IntV(2)
         ELSE IF Contains(lower(tf.v), s_import) THEN IntV(1)
         ELSE tf
    ELSE tf

\* [x] if not isinstance(x, list) else x
AsList(x) == IF x.t = "list" THEN x.v ELSE <<x>>

\* find_reporter_code / find_partner_code: the role handed to the resolver
RoleOfAlwaysReporter(s) == "reporter"
RoleOf(s) == IF s = "reporter" THEN "reporter" ELSE "partner"

\* os.path.exists(role + 'Areas.csv') is false
NeedsDownloadAlways(f) == TRUE
NeedsDownload(f) == ~f.exists

\* download_country_codes_file: the registry's rows without the "all" row
download_country_codes_file(reg) ==
    LET Kept(row) == row.id # s_all
    IN [exists |-> TRUE, rows |-> SelectSeq(reg, Kept)]

\* pd.read_csv(..., index_col=0): an all-numeric index column is parsed to
\* integers, any other stays text
read_csv(f) ==
    LET numeric == \A j \in 1..Len(f.rows) : isdigit(f.rows[j].id)
    IN [j \in 1..Len(f.rows) |->
          [code |-> IF numeric THEN IntV(ParseInt(f.rows[j].id))
                    ELSE StrV(f.rows[j].id),
           text |-> f.rows[j].text]]

\* mask = (df.text == country)
ExactMask(df, c) == {j \in 1..Len(df) : df[j].text = c}

\* sum(mask) == 1
AnyExact(mask) == Cardinality(mask) >= 1
UniqueExact(mask) == Cardinality(mask) = 1

\* df.index[mask].tolist()[0]
ExactCodeFirstRow(df, mask) == df[1].code
ExactCode(df, mask) == df[CHOOSE j \in mask : \A m \in mask : j <= m].code

\* df[mask2].text.to_dict() with mask2 = df.text.str.contains(country)
dict_matches(df, c) ==
    LET Hit(row) == RegexSearch(c, row.text)
    IN SelectSeq(df, Hit)

LookupError(c) == [type |-> "LookupError", arg |-> c]
ReError(c) == [type |-> "re.error", arg |-> c]

\* the statements of download_trade_data, in order
OrderRequestFirst == <<"reporter", "request", "partner", "tradeflow">>
Order == <<"reporter", "partner", "tradeflow", "request">>

OrderOf(o) ==
    CASE o = "download_trade_data" -> Order
      [] o = "transform_reporter" -> <<"reporter">>
      [] o = "transform_partner" -> <<"partner">>
      [] o = "transform_tradeflow" -> <<"tradeflow">>
      [] OTHER -> <<>>

After(o, s) ==
    LET ord == OrderOf(o)
        at == CHOOSE j \in 1..Len(ord) : ord[j] = s
    IN IF at < Len(ord) THEN ord[at + 1] ELSE "end"

\* control moves to statement s of the running function ("end": it returns)
Goto(s, rep, par, tf) ==
    /\ stage' = s
    /\ pc' = CASE s \in {"reporter", "partner"} -> "transform"
               [] s = "tradeflow" -> "tradeflow"
               [] s = "request" -> "request"
               [] OTHER -> "returned"
    /\ xs' = IF s = "reporter" THEN AsList(rep)
             ELSE IF s = "partner" THEN AsList(par) ELSE <<>>
    /\ i' = 1
    /\ out' = <<>>
    /\ ret' = IF s # "end" THEN None
              ELSE CASE op' = "transform_reporter" -> rep
                     [] op' = "transform_partner" -> par
                     [] op' = "transform_tradeflow" -> tf
                     [] OTHER -> None

\* an exception leaves every frame: no function here catches anything
Raise(e) ==
    /\ pc' = "raised"
    /\ err' = e
    /\ fOut' = [status |-> "raised", code |-> None]
    /\ UNCHANGED <<stage, xs, i, out, ret, resolved>>

\* find_country_code returns code to its caller
Return(code) ==
    /\ fOut' = [status |-> "returned", code |-> code]
    /\ UNCHANGED <<err, stage, xs>>
    /\ IF op = "find_country_code"
       THEN /\ pc' = "returned"
            /\ ret' = code
            /\ UNCHANGED <<i, out, resolved>>
       ELSE /\ pc' = "transform"
            /\ out' = Append(out, code)
            /\ i' = i + 1
            /\ resolved' = resolved \cup
                 {[stage |-> stage, i |-> i, role |-> fRole,
                   name |-> name0, code |-> code]}
            /\ UNCHANGED ret

Idle == pc = "idle"

\* a client calls one of the module's functions
Enter(o, rep, par, tf, hr) ==
    /\ Idle
    /\ op' = o
    /\ argReporter' = rep /\ argPartner' = par /\ argTradeflow' = tf
    /\ human_readable' = hr
    /\ reporter' = rep /\ partner' = par /\ tradeflow' = tf
    /\ err' = NoErr
    /\ access' = {} /\ resolved' = {} /\ done' = {}
    /\ parameters' = None /\ outWritten' = FALSE
    /\ cands' = <<>> /\ k' = 1 /\ asked' = <<>> /\ fOut' = NoFind
    /\ UNCHANGED env

\* a call that does not start in the resolver: its frame is empty
NoFindFrame == country' = <<>> /\ name0' = <<>> /\ fRole' = "reporter"

\* ---------------------------------------------------------------- Init
Init ==
    /\ registry \in Registries
    /\ file \in [Roles -> {NoFile} \cup
                    {download_country_codes_file(reg[r]) :
                        reg \in Registries, r \in Roles}]
    /\ \A r \in Roles :
          file[r] \in {NoFile, download_country_codes_file(registry[r])}
    /\ fetches = [r \in Roles |-> 0]
    /\ writes = [r \in Roles |-> 0]
    /\ op = "idle" /\ pc = "idle" /\ stage = "end"
    /\ argReporter = None /\ argPartner = None /\ argTradeflow = None
    /\ human_readable = FALSE
    /\ reporter = None /\ partner = None /\ tradeflow = None
    /\ xs = <<>> /\ i = 1 /\ out = <<>>
    /\ country = <<>> /\ fRole = "reporter" /\ name0 = <<>>
    /\ cands = <<>> /\ k = 1 /\ asked = <<>> /\ fOut = NoFind
    /\ access = {} /\ resolved = {} /\ done = {}
    /\ parameters = None /\ outWritten = FALSE
    /\ ret = None /\ err = NoErr

\* -------------------------------------------------------------- actions
call_download_trade_data ==
    \E rep \in DLReporters, par \in DLPartners, tf \in DLTradeflows,
       hr \in BOOLEAN :
        /\ Enter("download_trade_data", rep, par, tf, hr)
        /\ Goto(Order[1], rep, par, tf)
        /\ NoFindFrame

call_transform_reporter ==
    \E x \in CountryInputs :
        /\ Enter("transform_reporter", x, None, None, FALSE)
        /\ Goto("reporter", x, None, None)
        /\ NoFindFrame

call_transform_partner ==
    \E x \in CountryInputs :
        /\ Enter("transform_partner", None, x, None, FALSE)
        /\ Goto("partner", None, x, None)
        /\ NoFindFrame

call_transform_tradeflow ==
    \E x \in TFInputs :
        /\ Enter("transform_tradeflow", None, None, x, FALSE)
        /\ Goto("tradeflow", None, None, x)
        /\ NoFindFrame

call_find_country_code ==
    \E c \in Names, r \in Roles :
        /\ Enter("find_country_code", None, None, None, FALSE)
        /\ pc' = "find" /\ stage' = "end"
        /\ country' = c /\ name0' = c /\ fRole' = r
        /\ xs' = <<>> /\ i' = 1 /\ out' = <<>> /\ ret' = None

\* one element of  [r if is_country_code(r) else find_..._code(r) for r in ..]
\* up to the call of the resolver
transform_element ==
    /\ pc = "transform" /\ i <= Len(xs)
    /\ IF is_country_code(xs[i])
       THEN /\ out' = Append(out, xs[i])
            /\ i' = i + 1
            /\ UNCHANGED <<pc, find>>
       ELSE /\ pc' = "find"
            /\ country' = xs[i].v /\ name0' = xs[i].v
            /\ fRole' = RoleOf(stage)
            /\ cands' = <<>> /\ k' = 1 /\ asked' = <<>> /\ fOut' = NoFind
            /\ UNCHANGED <<i, out>>
    /\ UNCHANGED <<env, op, stage, args, locals, xs, access, resolved, done,
                   request, ret, err>>

\* the comprehension is exhausted: the list is bound to the local variable
\* and the function goes on (or returns)
transform_done ==
    /\ pc = "transform" /\ i > Len(xs)
    /\ reporter' = IF stage = "reporter" THEN ListV(out) ELSE reporter
    /\ partner' = IF stage = "partner" THEN ListV(out) ELSE partner
    /\ done' = done \cup {stage}
    /\ UNCHANGED <<env, op, args, tradeflow, find, access, resolved,
                   request, err>>
    /\ Goto(After(op, stage), reporter', partner', tradeflow)

\* find_country_code from its first line to the first prompt, the return
\* of an exact match, or the exception
find_lookup ==
    /\ pc = "find"
    /\ LET missing == NeedsDownload(file[fRole])
           f == IF missing THEN download_country_codes_file(registry[fRole])
                ELSE file[fRole]
           df == read_csv(f)
           mask == ExactMask(df, country)
           matches == dict_matches(df, country)
       IN /\ file' = [file EXCEPT ![fRole] = f]
          /\ fetches' = IF missing
                        THEN [fetches EXCEPT ![fRole] = Min(@ + 1, MaxCount)]
                        ELSE fetches
          /\ writes' = IF missing
                       THEN [writes EXCEPT ![fRole] = Min(@ + 1, MaxCount)]
                       ELSE writes
          /\ access' = access \cup {"exists", "read"}
                       \cup (IF missing THEN {"fetch", "write"} ELSE {})
                       \cup (IF ~UniqueExact(mask) /\ RegexCompiles(country)
                                /\ Len(matches) > 0
                             THEN {"prompt"} ELSE {})
          /\ IF UniqueExact(mask)
             THEN Return(ExactCode(df, mask)) /\ UNCHANGED <<country, cands, k>>
             ELSE IF ~RegexCompiles(country)
             THEN Raise(ReError(country)) /\ UNCHANGED <<country, cands, k>>
             ELSE IF Len(matches) > 0
             THEN /\ pc' = "prompt"
                  /\ cands' = matches /\ k' = 1
                  /\ country' = matches[1].text
                  /\ fOut' = [status |-> "prompt", code |-> None]
                  /\ UNCHANGED <<stage, xs, i, out, ret, err, resolved>>
             ELSE Raise(LookupError(country)) /\ UNCHANGED <<country, cands, k>>
    /\ UNCHANGED <<registry, op, args, locals, fRole, name0, asked, done,
                   request>>

\* the reviewer answers the prompt for candidate k; the loop goes on to the
\* next prompt, the return or the exception
answer ==
    /\ pc = "prompt"
    /\ \E response \in Responses :
        /\ asked' = Append(asked, [code |-> cands[k].code, response |-> response])
        /\ IF response = "y"
           THEN Return(cands[k].code) /\ UNCHANGED <<country, k, access>>
           ELSE IF k < Len(cands)
           THEN /\ k' = k + 1
                /\ country' = cands[k + 1].text
                /\ access' = access \cup {"prompt"}
                /\ UNCHANGED <<pc, fOut, stage, xs, i, out, ret, err, resolved>>
           ELSE Raise(LookupError(country)) /\ UNCHANGED <<country, k, access>>
    /\ UNCHANGED <<env, op, args, locals, fRole, name0, cands, done, request>>

\* tradeflow = transform_tradeflow(tradeflow)
tradeflow_step ==
    /\ pc = "tradeflow"
    /\ tradeflow' = transform_tradeflow(tradeflow)
    /\ done' = done \cup {"tradeflow"}
    /\ UNCHANGED <<env, op, args, reporter, partner, find, access, resolved,
                   request, err>>
    /\ Goto(After(op, "tradeflow"), reporter, partner, tradeflow')

\* download_trade_data_base and the writing of the csv file
request_step ==
    /\ pc = "request"
    /\ parameters' = [r |-> reporter, p |-> partner, rg |-> tradeflow,
                      fmt |-> IF human_readable THEN "csv" ELSE "json",
                      head |-> IF human_readable THEN "H" ELSE "M"]
    /\ \E dataset \in {"empty", "records"} :
          outWritten' = (human_readable \/ dataset = "records")
    /\ done' = done \cup {"request"}
    /\ UNCHANGED <<env, op, args, locals, find, access, resolved, err>>
    /\ Goto(After(op, "request"), reporter, partner, tradeflow)

\* the client has taken the result (or the exception): the frames are gone
call_ends ==
    /\ pc \in {"returned", "raised"}
    /\ op' = "idle" /\ pc' = "idle" /\ stage' = "end"
    /\ argReporter' = None /\ argPartner' = None /\ argTradeflow' = None
    /\ human_readable' = FALSE
    /\ reporter' = None /\ partner' = None /\ tradeflow' = None
    /\ xs' = <<>> /\ i' = 1 /\ out' = <<>>
    /\ country' = <<>> /\ fRole' = "reporter" /\ name0' = <<>>
    /\ cands' = <<>> /\ k' = 1 /\ asked' = <<>> /\ fOut' = NoFind
    /\ access' = {} /\ resolved' = {} /\ done' = {}
    /\ parameters' = None /\ outWritten' = FALSE
    /\ ret' = None /\ err' = NoErr
    /\ UNCHANGED env

Next ==
    \/ call_download_trade_data
    \/ call_transform_reporter
    \/ call_transform_partner
    \/ call_transform_tradeflow
    \/ call_find_country_code
    \/ transform_element
    \/ transform_done
    \/ find_lookup
    \/ answer
    \/ tradeflow_step
    \/ request_step
    \/ call_ends

Spec == Init /\ [][Next]_vars

TypeOK ==
    /\ pc \in {"idle", "transform", "find", "prompt", "tradeflow", "request",
               "returned", "raised"}
    /\ \A r \in Roles : fetches[r] \in 0..MaxCount /\ writes[r] \in 0..MaxCount

\* ----------------------------------------------------- claim vocabulary
IsAllToken(e) == e.t = "str" /\ lower(e.v) = s_all
IsValidCode(e) == e.t = "int" \/ (e.t = "str" /\ isdigit(e.v))
Wrap(x) == IF x.t = "list" THEN x.v ELSE <<x>>
HasWord(s, w) == Contains(lower(s), w)

\* the lookup table find_country_code works on, once it has acted
Table(r) == read_csv(file[r])
FindActed == fOut.status # "none"
ExactRows == {j \in 1..Len(Table(fRole)) : Table(fRole)[j].text = name0}
SubstrCands ==
    LET Has(row) == Contains(row.text, name0)
    IN SelectSeq(Table(fRole), Has)
NoneConfirmed == \A j \in 1..Len(asked) : asked[j].response # "y"
ConfirmedLast ==
    /\ asked # <<>>
    /\ asked[Len(asked)].response = "y"
    /\ asked[Len(asked)].code = fOut.code
    /\ \A j \in 1..(Len(asked) - 1) : asked[j].response # "y"

\* C1: every element of the reporter and partner values that
\* download_trade_data hands to the trade-data request is the literal
\* "all" (any case) or a valid code (integer or digit string); a free-text
\* name never reaches the query.
C1_OnlyCodesSerialized ==
    (op = "download_trade_data" /\ "request" \in done) =>
        /\ parameters.r.t = "list" /\ parameters.p.t = "list"
        /\ \A j \in 1..Len(parameters.r.v) :
              IsAllToken(parameters.r.v[j]) \/ IsValidCode(parameters.r.v[j])
        /\ \A j \in 1..Len(parameters.p.v) :
              IsAllToken(parameters.p.v[j]) \/ IsValidCode(parameters.p.v[j])

\* a request was made after a free-text name had been resolved
C1_Witness ==
    /\ op = "download_trade_data" /\ "request" \in done
    /\ \E rec \in resolved : rec.stage = "reporter"
    /\ \E rec \in resolved : rec.stage = "partner"

\* C2: for an integer or all-digit-string input transform_reporter and
\* transform_partner return the one-element list holding that input, and
\* the call touches neither the cache file nor the registry nor the prompt.
C2_CodePassesUntouched ==
    /\ (op = "transform_reporter" /\ IsValidCode(argReporter)) =>
          /\ access = {}
          /\ pc \in {"transform", "returned"}
          /\ pc = "returned" => ret = ListV(<<argReporter>>)
    /\ (op = "transform_partner" /\ IsValidCode(argPartner)) =>
          /\ access = {}
          /\ pc \in {"transform", "returned"}
          /\ pc = "returned" => ret = ListV(<<argPartner>>)

C2_Witness ==
    /\ op = "transform_partner" /\ pc = "returned"
    /\ argPartner = StrV(s_124) /\ ret = ListV(<<StrV(s_124)>>)

\* C3 as claimed: every string containing "export" (any case) gives 2 and
\* every string containing "import" (any case) gives 1.
C3_AsClaimed ==
    (op = "transform_tradeflow" /\ pc = "returned" /\ argTradeflow.t = "str") =>
        /\ HasWord(argTradeflow.v, s_export) => ret = IntV(2)
        /\ HasWord(argTradeflow.v, s_import) => ret = IntV(1)

\* C3 amended: every string containing "export" (any case) gives 2; every
\* string containing "import" (any case) and not "export" gives 1.
C3_ExportFirst ==
    (op = "transform_tradeflow" /\ pc = "returned" /\ argTradeflow.t = "str") =>
        /\ HasWord(argTradeflow.v, s_export) => ret = IntV(2)
        /\ (HasWord(argTradeflow.v, s_import)
              /\ ~HasWord(argTradeflow.v, s_export)) => ret = IntV(1)

C3_Witness ==
    /\ op = "transform_tradeflow" /\ pc = "returned"
    /\ argTradeflow = StrV(s_re \o s_Import)
    /\ ret = IntV(1)

\* C4: when exactly one row's display name equals the name,
\* find_country_code returns that row's code without any prompt, whatever
\* other rows contain the name.
C4_UniqueExactReturned ==
    (FindActed /\ Cardinality(ExactRows) = 1) =>
        /\ fOut.status = "returned"
        /\ fOut.code = Table(fRole)[CHOOSE j \in ExactRows : TRUE].code
        /\ asked = <<>>

\* the exact match won although another row contains the name too
C4_Witness ==
    /\ FindActed /\ Cardinality(ExactRows) = 1
    /\ Len(SubstrCands) > 1
    /\ fOut.status = "returned"

\* C5 as claimed: when no display name equals the input and none contains
\* it as a substring, find_country_code prompts for nothing and raises
\* LookupError naming the input.
C5_AsClaimed ==
    (FindActed /\ ExactRows = {} /\ SubstrCands = <<>>) =>
        /\ fOut.status = "raised"
        /\ err = LookupError(name0)
        /\ asked = <<>>

\* C6 as claimed: without a unique exact match and with rows containing
\* the input as a substring, those rows are prompted for in order; the
\* first one answered "y" is returned and nothing is prompted after it;
\* if none is answered "y" the call raises LookupError.
C6_AsClaimed ==
    (FindActed /\ Cardinality(ExactRows) # 1 /\ SubstrCands # <<>>) =>
        /\ Len(asked) <= Len(SubstrCands)
        /\ \A j \in 1..Len(asked) : asked[j].code = SubstrCands[j].code
        /\ fOut.status = "prompt" => NoneConfirmed /\ Len(asked) < Len(SubstrCands)
        /\ fOut.status = "returned" => ConfirmedLast
        /\ fOut.status = "raised" =>
              /\ err.type = "LookupError"
              /\ NoneConfirmed
              /\ Len(asked) = Len(SubstrCands)

C8_SameOrderSameRole ==
    \A s \in done \cap {"reporter", "partner"} :
        LET inp == Wrap(IF s = "reporter" THEN argReporter ELSE argPartner)
            res == IF s = "reporter" THEN reporter ELSE partner
        IN /\ res.t = "list"
           /\ Len(res.v) = Len(inp)
           /\ \A j \in 1..Len(inp) :
                 IF IsValidCode(inp[j]) \/ IsAllToken(inp[j])
                 THEN res.v[j] = inp[j]
                 ELSE /\ \E rec \in resolved :
                            /\ rec.stage = s /\ rec.i = j /\ rec.role = s
                            /\ rec.name = inp[j].v /\ rec.code = res.v[j]
                      /\ \E m \in 1..Len(Table(s)) : Table(s)[m].code = res.v[j]

\* normalising ["USA", 124] for reporter gave [842, 124]
C8_Witness ==
    /\ op = "transform_reporter" /\ pc = "returned"
    /\ argReporter = ListV(<<StrV(s_USA), IntV(124)>>)
    /\ ret = ListV(<<IntV(842), IntV(124)>>)

\* C9: download_trade_data builds the request only after reporter, partner
\* and trade flow are normalised, from the normalised values; when a
\* resolution raises LookupError the call ends with that exception, no
\* request made and no output file written.
C9_NormalizeThenRequest ==
    op = "download_trade_data" =>
        /\ "request" \in done =>
              /\ {"reporter", "partner", "tradeflow"} \subseteq done
              /\ parameters.r = reporter /\ parameters.p = partner
              /\ parameters.rg = tradeflow
        /\ (fOut.status = "raised" /\ err.type = "LookupError") =>
              /\ pc = "raised"
              /\ "request" \notin done
              /\ ~outWritten

\* the partner failed after the reporter had been resolved
C9_Witness ==
    /\ op = "download_trade_data" /\ pc = "raised"
    /\ err.type = "LookupError"
    /\ "reporter" \in done
    /\ \E rec \in resolved : rec.stage = "reporter"

\* C10 as claimed: with more than one row whose display name equals the
\* input, find_country_code raises LookupError and returns none of the
\* rows' codes.
C10_AsClaimed ==
    (FindActed /\ Cardinality(ExactRows) > 1) =>
        /\ fOut.status # "returned"
        /\ fOut.status = "raised" => err.type = "LookupError"

\* C10 amended: with more than one row whose display name equals the
\* input, find_country_code selects none of them by itself: it returns
\* only a code the reviewer answered "y" to at that code's prompt, and
\* raises only when no prompt was answered "y".
C10_OnlyConfirmed ==
    (FindActed /\ Cardinality(ExactRows) > 1) =>
        /\ fOut.status = "returned" => ConfirmedLast
        /\ fOut.status = "raised" => NoneConfirmed

\* the second of two equally named rows was confirmed and returned
C10_Witness ==
    /\ FindActed /\ Cardinality(ExactRows) > 1
    /\ fOut.status = "returned"
    /\ Len(asked) = 2
====
